---- MODULE Spec2Model ----
(***************************************************************************)
(* Model of the document-to-text pipeline (processPDFWithOCR, the variant  *)
(* with validation, timeouts, per-page containment and configuration) and  *)
(* of the ProcessContract page that drives it and extracts the fields.     *)
(***************************************************************************)
EXTENDS Integers, Sequences, FiniteSets, TLC

(***************************************************************************)
(* Program constants.                                                      *)
(***************************************************************************)
\* 50 * 1024 * 1024 bytes
MaxFileSize == 52428800
MaxPageCount == 20

(***************************************************************************)
(* Bounds of the model.                                                    *)
(***************************************************************************)
\* documents of 1..MaxPages pages have an arbitrary outcome on every page
MaxPages == 3
\* operations abandoned by a deadline that may still complete later
MaxAbandoned == 1
\* pages of a contract opened on the processing page
MaxContractPages == 2
\* manual field edits on one page
MaxEdits == 1
\* progress reports of the logger of one recognition
MaxReports == 1

(***************************************************************************)
(* Inputs: the file, the behaviour of the document library and of the      *)
(* recognition engine on each page, and the progress callback.             *)
(***************************************************************************)
PdfType == "application/pdf"
FileTypes == {PdfType, "image/png"}
FileSizes == {MaxFileSize, MaxFileSize + 1}

\* what the engine reports as confidence
Confidences == {0, 95}
\* what the engine reports as text; the first two are blank
RecognizedTexts == {"", " \n", "Buyer: Al\n"}

FailureKinds == {"loadError", "loadTimeout", "noContext", "renderError",
                 "renderTimeout", "ocrError", "ocrTimeout"}

\* the fate of one page: it is recognized, or fails at one stage
PageOutcomes ==
    [kind : {"recognized"}, confidence : Confidences, text : RecognizedTexts]
    \cup [kind : FailureKinds, confidence : {0}, text : {""}]

\* a document of n pages; the outcome of page p is outcomes[p], and a
\* document longer than its outcome list repeats the list cyclically
DocumentsOf(maxPages) ==
    UNION { [numPages : {n}, outcomes : [1..n -> PageOutcomes]] : n \in 1..maxPages }
    \cup [numPages : {0}, outcomes : {<< >>}]
    \cup [numPages : {MaxPageCount, MaxPageCount + 1}, outcomes : [1..1 -> PageOutcomes]]

\* pageSegMode or ocrEngineMode left undefined
Undefined == -1

\* the characters common in contracts
ContractCharacters ==
    "ABCDEFGHIJKLMNOPQRSTUVWXYZabcdefghijklmnopqrstuvwxyz0123456789"
        \o ".,!?@#$%&*()[]{}:;\"'-_/\\+=<>| \n\r\t"

DEFAULT_TESSERACT_CONFIG ==
    [language |-> "eng", pageSegMode |-> 6, ocrEngineMode |-> 3,
     preserveInterwordSpaces |-> TRUE,
     tesseditCharWhitelist |-> ContractCharacters,
     tesseditCharBlacklist |-> ""]

\* the configurations a caller may pass; an absent string is "", an absent
\* flag FALSE
TesseractConfigs ==
    [language : {"eng"}, pageSegMode : {Undefined, 6, 11},
     ocrEngineMode : {Undefined, 3}, preserveInterwordSpaces : BOOLEAN,
     tesseditCharWhitelist : {"", "0123456789"},
     tesseditCharBlacklist : {"", "|"}]

\* a pixel of the canvas: red, green, blue, alpha
White == << 255, 255, 255, 255 >>
Black == << 0, 0, 0, 255 >>
\* the canvas after rendering a page on which nothing is painted, and one
\* with ink
BlankRaster == << White, White >>
InkedRaster == << White, Black >>

\* the engine finds no character at all on a page without ink
Raster(outcome) ==
    IF outcome.kind = "recognized" /\ outcome.text = "" THEN BlankRaster ELSE InkedRaster

\* Tesseract.recognize was not called yet
NoCall == [page |-> 0, image |-> << >>, language |-> "", logger |-> FALSE,
           parameters |-> {}]

EventKinds == {"loading", "converting", "ocr", "error", "fallback"}
NoCallback == [present |-> FALSE, throwsOn |-> {}]
ReturningCallback == [present |-> TRUE, throwsOn |-> {}]
\* callbacks that fail on one kind of event, or on every event
ThrowingCallbacks ==
    { [present |-> TRUE, throwsOn |-> {k}] : k \in EventKinds }
    \cup { [present |-> TRUE, throwsOn |-> EventKinds] }

\* the texts of the pages of a contract: without a field, with some of the
\* fields, with all of them
ContractTexts ==
    {"Page 2 of 2",
     "Buyer: Al Roe\nPurchase Price: $1,250.00\n",
     "Property: 12 Main St\nLot 7, Block 2 of Sunny Acres\nBuyer: Al\nSeller: Bo\n"
        \o "Sale Price $9,000\nDeposit: $500\nSigned 1/2/2024\nClosing Date: 04/30/2025"}

\* what the user leaves in the text box
EditedTexts == {"", "Seller: Bo Lee\n$5\nsettlement date 1/2/2025"}

\* the fate of a page of a contract
ContractOutcomes ==
    [kind : {"recognized"}, confidence : {95}, text : ContractTexts]
    \cup [kind : FailureKinds, confidence : {0}, text : {""}]

\* the fate of a page of a contract of several pages: recognized, or
\* failed for want of a drawing context
MixedOutcomes ==
    { o \in ContractOutcomes : o.kind \in {"recognized", "noContext"} }

\* the contracts opened on the processing page: a single page of any fate,
\* or several pages of which the first two are arbitrary and the later
\* ones repeat them
ContractDocuments ==
    [numPages : {1}, outcomes : [1..1 -> ContractOutcomes]]
    \cup UNION { [numPages : {n}, outcomes : [1..2 -> MixedOutcomes]] :
                 n \in 2..MaxContractPages }

\* the fields the user changes, what the user types into them, and into
\* the notes
EditedFields == {"Buyer Name", "Closing Date"}
EditedValues == {"Cy Poe"}
NotesTexts == {"see page 2"}

\* state.fileId, as the upload page builds it
FileId == "26-1001-AB"

\* processingError === null
NoError == ""
\* no file is offered for download
NoDownload == ""
\* no field has been updated by hand
NoUpdate == [n |-> 0, field |-> "", value |-> ""]
\* the initial processingProgress, {}
NoProgress == [pageNumber |-> 0, error |-> FALSE]

VARIABLES
    file,        \* [type, size, parses, doc]: the input of the run
    callback,    \* the onProgress argument
    pc,          \* where processPDFWithOCR is: "start", "parse", "getPage",
                 \* "render", "recognize", "done"
    pageNum, totalPages,
    allText, totalConfidence, processedPages, failedPages,
    result,      \* what the returned promise settles to
    events,      \* the progress events delivered to onProgress, in order
    pageState,   \* page -> pending, rasterizing, recognizing, succeeded, failed
    written,     \* the pages whose fragment was appended to allText, in order
    inflight,    \* operations abandoned by a deadline and still running
    settled,     \* abandoned operations that completed after their deadline
    previous,    \* what the previous call on the same file settled to
    mounted,     \* the call was made by the ProcessContract page
    extractedData, extractedText, ocrConfidence, isProcessing, currentStep,
    processingProgress, processingError,   \* the state of the page
    extractedFrom,   \* the text extractedData was extracted from
    documentNotes,   \* the notes of the page
    download,    \* the content of the file the latest handler offered for
                 \* download, NoDownload if it offered none
    update,      \* the latest call of handleFieldUpdate since the run returned:
                 \* its number and arguments
    manual,      \* the fields updated by hand since the list was extracted
    tesseractConfig,   \* the tesseractConfig argument of the run
    tesseractConfigState,   \* the tesseractConfig state of the page
    recognizeArgs,     \* what the latest call of Tesseract.recognize received
    canvases           \* the pages whose canvas was created and not removed

vars == << file, callback, pc, pageNum, totalPages, allText, totalConfidence,
           processedPages, failedPages, result, events, pageState, written,
           inflight, settled, previous, mounted, extractedData, extractedText,
           ocrConfidence, isProcessing, currentStep, processingProgress,
           processingError, extractedFrom, documentNotes, download, update,
           manual, tesseractConfig, tesseractConfigState, recognizeArgs, canvases >>

(***************************************************************************)
(* Strings.                                                                *)
(***************************************************************************)
CharAt(s, i) == SubSeq(s, i, i)

Digit(d) == CharAt("0123456789", d + 1)

RECURSIVE NumStr(_)
\* `${pageNum}`: the decimal numeral of a natural number
NumStr(n) == IF n < 10 THEN Digit(n) ELSE NumStr(n \div 10) \o Digit(n % 10)

Whitespace == {" ", "\n", "\r", "\t"}

\* !(text && text.trim().length > 0)
IsBlankText(t) == \A i \in 1..Len(t) : CharAt(t, i) \in Whitespace

ContentFragment(p, t) == "\n--- Page " \o NumStr(p) \o " ---\n" \o t \o "\n"
NoTextFragment(p) == "\n--- Page " \o NumStr(p) \o " (No text found) ---\n"
ErrorFragment(p, msg) == "\n--- Page " \o NumStr(p) \o " (Error: " \o msg \o ") ---\n"

LoadTimeoutMessage(p) == "Timeout loading page " \o NumStr(p)
RenderTimeoutMessage(p) == "Timeout rendering page " \o NumStr(p)
OcrTimeoutMessage(p) == "OCR timeout on page " \o NumStr(p)
\* messages of the errors raised by the libraries
LoadErrorMessage == "Invalid page request"
RenderErrorMessage == "Rendering cancelled"
OcrErrorMessage == "Engine failure"
CallbackErrorMessage == "Progress handler failed"

InvalidTypeMessage(type) == "Invalid file type: " \o type \o ". Please upload a PDF file."
TooLargeMessage == "File too large. Please upload a PDF smaller than 50MB."
ParseErrorMessage == "Failed to parse PDF. The file may be corrupted or password-protected."
NoPagesMessage == "PDF contains no pages."
TooManyPagesMessage == "PDF has too many pages (limit: 20). Please upload a smaller document."
NoUsableTextMessage == "Failed to extract text from any pages. The PDF may contain only images or be corrupted."

(***************************************************************************)
(* Regular expressions of extractFieldsFromText, on strings.  A pattern is *)
(* modelled by the end of its match at a position (0 when it does not      *)
(* match there); text.match with the g flag yields the leftmost match.     *)
(***************************************************************************)
UpperAlpha == "ABCDEFGHIJKLMNOPQRSTUVWXYZ"
LowerAlpha == "abcdefghijklmnopqrstuvwxyz"

\* toLowerCase on the capital letters
ToLower ==
    [c \in { CharAt(UpperAlpha, k) : k \in 1..26 } |->
        CharAt(LowerAlpha, CHOOSE k \in 1..26 : CharAt(UpperAlpha, k) = c)]

\* the i flag: letters compare by their lower case
LowerChar(c) == IF c \in DOMAIN ToLower THEN ToLower[c] ELSE c

\* the literal w (in lower case) is at position i of t, ignoring case
MatchesCI(t, i, w) ==
    /\ i >= 1
    /\ i + Len(w) - 1 <= Len(t)
    /\ \A k \in 1..Len(w) : LowerChar(CharAt(t, i + k - 1)) = CharAt(w, k)

\* (?:w1|w2|...) at position i: the position after the alternative, or 0
KeywordEnd(t, i, kws) ==
    IF \E n \in 1..Len(kws) : MatchesCI(t, i, kws[n])
    THEN i + Len(kws[CHOOSE n \in 1..Len(kws) :
                       /\ MatchesCI(t, i, kws[n])
                       /\ \A m \in 1..(n - 1) : ~MatchesCI(t, i, kws[m])])
    ELSE 0

DigitChars == {"0", "1", "2", "3", "4", "5", "6", "7", "8", "9"}
\* [\d,]
AmountChars == DigitChars \cup {","}
\* [:\s]
SepChars == Whitespace \cup {":"}
\* the complement of [^\n\r]
NewlineChars == {"\n", "\r"}

RECURSIVE RunEnd(_, _, _)
\* the end of the longest run of characters of a class that starts at i
RunEnd(t, i, class) ==
    IF i <= Len(t) /\ CharAt(t, i) \in class THEN RunEnd(t, i + 1, class) ELSE i

RECURSIVE LineEnd(_, _)
\* the end of the longest run of [^\n\r] that starts at i
LineEnd(t, i) ==
    IF i <= Len(t) /\ CharAt(t, i) \notin NewlineChars THEN LineEnd(t, i + 1) ELSE i

\* a greedy run of separators k..s-1, of which at least one is kept, before
\* a remainder that ends at ends[x] when it starts at x (0: no match at x):
\* the run is given back one character at a time until the remainder
\* matches where the run stops; the end of that match, or 0
AfterRun(k, s, ends) ==
    LET stops == { x \in (k + 1)..s : ends[x] > 0 }
    IN  IF stops = {} THEN 0 ELSE ends[CHOOSE x \in stops : \A y \in stops : y <= x]

\* match[0] of text.match(pattern) for a pattern whose match at position i
\* ends at ends[i] (0: no match at i): the leftmost match, or "" for null
MatchZero(t, ends) ==
    LET starts == { i \in 1..Len(t) : ends[i] > 0 }
    IN  IF starts = {} THEN ""
        ELSE LET i == CHOOSE i \in starts : \A j \in starts : i <= j
             IN  SubSeq(t, i, ends[i] - 1)

RECURSIVE TrimLeft(_), TrimRight(_)
TrimLeft(w) ==
    IF Len(w) > 0 /\ CharAt(w, 1) \in Whitespace THEN TrimLeft(SubSeq(w, 2, Len(w))) ELSE w
TrimRight(w) ==
    IF Len(w) > 0 /\ CharAt(w, Len(w)) \in Whitespace
    THEN TrimRight(SubSeq(w, 1, Len(w) - 1)) ELSE w
\* String.prototype.trim
Trim(w) == TrimRight(TrimLeft(w))

RECURSIVE RemoveLabels(_, _, _)
\* m.replace(/(?:w1|w2|...)[:\s]+/gi, ''), from position i on
RemoveLabels(m, i, kws) ==
    IF i > Len(m) THEN ""
    ELSE LET k == KeywordEnd(m, i, kws)
             e == RunEnd(m, k, SepChars)
         IN  IF k > 0 /\ e > k
             THEN RemoveLabels(m, e, kws)
             ELSE CharAt(m, i) \o RemoveLabels(m, i + 1, kws)

\* m.replace(/^(w1|w2|...)[:\s]+/gi, '')
RemoveLeadingLabel(m, kws) ==
    LET k == KeywordEnd(m, 1, kws)
        e == RunEnd(m, k, SepChars)
    IN  IF k > 0 /\ e > k THEN SubSeq(m, e, Len(m)) ELSE m

AddressKeywords == << "property", "subject property", "premises", "located at", "address" >>
StreetSuffixes == << "street", "st", "avenue", "ave", "road", "rd", "drive", "dr",
                     "lane", "ln", "blvd", "boulevard" >>
PriceKeywords == << "purchase price", "sale price", "total price" >>
BuyerKeywords == << "buyer", "purchaser" >>
SellerKeywords == << "seller", "vendor" >>
ClosingKeywords == << "closing date", "settlement date" >>
ExecutionKeywords == << "execution date", "signed" >>
EarnestKeywords == << "earnest money", "deposit" >>
LegalKeywords == << "legal description", "lot", "block" >>
LegalLabel == << "legal description" >>

\* [^\n\r]+(?:street|st|...)[^\n\r]* at position x: the end of the line, or 0
StreetLineEnd(t, x) ==
    LET eol == LineEnd(t, x)
    IN  IF \E j \in (x + 1)..(eol - 1) :
              \E n \in 1..Len(StreetSuffixes) :
                 /\ j + Len(StreetSuffixes[n]) <= eol
                 /\ MatchesCI(t, j, StreetSuffixes[n])
        THEN eol ELSE 0

\* [^\n\r]+ at position x: the end of the line, or 0
RestOfLineEnd(t, x) == IF LineEnd(t, x) > x THEN LineEnd(t, x) ELSE 0

\* [^\n\r]{20,} at position x: the end of the line, or 0
LongLineEnd(t, x) == IF LineEnd(t, x) - x >= 20 THEN LineEnd(t, x) ELSE 0

\* addressPatterns[0]
LabeledAddressEnd(t, i) ==
    LET k == KeywordEnd(t, i, AddressKeywords)
        s == RunEnd(t, k, SepChars)
    IN  IF k = 0 THEN 0 ELSE AfterRun(k, s, [x \in (k + 1)..s |-> StreetLineEnd(t, x)])

\* addressPatterns[1]
BareAddressEnd(t, i) ==
    LET d == RunEnd(t, i, DigitChars)
        s == RunEnd(t, d, Whitespace)
    IN  IF d = i THEN 0 ELSE AfterRun(d, s, [x \in (d + 1)..s |-> StreetLineEnd(t, x)])

\* an amount without its decimal part: [\d,]+ alone
AmountEndWhole(t, d) ==
    LET r == RunEnd(t, d, AmountChars)
    IN  IF r = d THEN 0 ELSE r

\* [\d,]+(?:\.\d{2})? at position d: its end, or 0
AmountEnd(t, d) ==
    LET r == RunEnd(t, d, AmountChars)
    IN  IF r = d THEN 0
        ELSE IF /\ r + 2 <= Len(t)
                /\ CharAt(t, r) = "."
                /\ CharAt(t, r + 1) \in DigitChars
                /\ CharAt(t, r + 2) \in DigitChars
             THEN r + 3
             ELSE r

\* (?:w1|w2|...)[:\s]*\$?([\d,]+(?:\.\d{2})?)
LabeledAmountEnd(t, i, kws) ==
    LET k == KeywordEnd(t, i, kws)
        s == RunEnd(t, k, SepChars)
        d == IF s <= Len(t) /\ CharAt(t, s) = "$" THEN s + 1 ELSE s
    IN  IF k = 0 THEN 0 ELSE AmountEnd(t, d)

\* pricePatterns[0]
LabeledPriceEnd(t, i) == LabeledAmountEnd(t, i, PriceKeywords)

\* pricePatterns[1]
BarePriceEnd(t, i) ==
    IF i <= Len(t) /\ CharAt(t, i) = "$"
    THEN AmountEnd(t, RunEnd(t, i + 1, Whitespace))
    ELSE 0

\* the earnest money pattern
EarnestEnd(t, i) == LabeledAmountEnd(t, i, EarnestKeywords)

\* m.match(/\$?([\d,]+(?:\.\d{2})?)/)[1]: the first amount of m, or ""
InnerAmount(m) ==
    IF \E q \in 1..Len(m) : CharAt(m, q) \in AmountChars
    THEN LET q == CHOOSE q \in 1..Len(m) :
                     /\ CharAt(m, q) \in AmountChars
                     /\ \A j \in 1..(q - 1) : CharAt(m, j) \notin AmountChars
         IN  SubSeq(m, q, AmountEnd(m, q) - 1)
    ELSE ""

\* (?:w1|w2|...)[:\s]+([^\n\r]+)
PartyEnd(t, i, kws) ==
    LET k == KeywordEnd(t, i, kws)
        s == RunEnd(t, k, SepChars)
    IN  IF k = 0 THEN 0 ELSE AfterRun(k, s, [x \in (k + 1)..s |-> RestOfLineEnd(t, x)])

BuyerEnd(t, i) == PartyEnd(t, i, BuyerKeywords)
SellerEnd(t, i) == PartyEnd(t, i, SellerKeywords)

\* \d{1,2}\/\d{1,2}\/\d{4} at position d: its end, or 0
DateEnd(t, d) ==
    LET r1 == RunEnd(t, d, DigitChars)
        r2 == RunEnd(t, r1 + 1, DigitChars)
        r3 == RunEnd(t, r2 + 1, DigitChars)
    IN  IF /\ r1 - d \in {1, 2}
           /\ r1 <= Len(t) /\ CharAt(t, r1) = "/"
           /\ r2 - (r1 + 1) \in {1, 2}
           /\ r2 <= Len(t) /\ CharAt(t, r2) = "/"
           /\ r3 - (r2 + 1) >= 4
        THEN r2 + 5
        ELSE 0

\* (?:w1|w2|...)[:\s]*(\d{1,2}\/\d{1,2}\/\d{4})
LabeledDateEnd(t, i, kws) ==
    LET k == KeywordEnd(t, i, kws)
    IN  IF k = 0 THEN 0 ELSE DateEnd(t, RunEnd(t, k, SepChars))

\* datePatterns[0] and datePatterns[1]
ClosingDateEnd(t, i) == LabeledDateEnd(t, i, ClosingKeywords)
ExecutionDateEnd(t, i) == LabeledDateEnd(t, i, ExecutionKeywords)

\* m.match(/(\d{1,2}\/\d{1,2}\/\d{4})/)[1]: the first date of m, or ""
InnerDate(m) ==
    IF \E q \in 1..Len(m) : DateEnd(m, q) > 0
    THEN LET q == CHOOSE q \in 1..Len(m) :
                     DateEnd(m, q) > 0 /\ \A j \in 1..(q - 1) : DateEnd(m, j) = 0
         IN  SubSeq(m, q, DateEnd(m, q) - 1)
    ELSE ""

\* (?:legal description|lot|block)[:\s]+([^\n\r]{20,})
LegalEnd(t, i) ==
    LET k == KeywordEnd(t, i, LegalKeywords)
        s == RunEnd(t, k, SepChars)
    IN  IF k = 0 THEN 0 ELSE AfterRun(k, s, [x \in (k + 1)..s |-> LongLineEnd(t, x)])

(***************************************************************************)
(* extractFieldsFromText: the fields found in a text, in the order the     *)
(* function pushes them.                                                   *)
(***************************************************************************)
Field(name, value, confidence) ==
    [field |-> name, value |-> value, confidence |-> confidence]

\* text.match of each pattern: match[0], or "" for null
LabeledAddressMatch(text) ==
    MatchZero(text, [i \in 1..Len(text) |-> LabeledAddressEnd(text, i)])
BareAddressMatch(text) ==
    MatchZero(text, [i \in 1..Len(text) |-> BareAddressEnd(text, i)])
LabeledPriceMatch(text) ==
    MatchZero(text, [i \in 1..Len(text) |-> LabeledPriceEnd(text, i)])
BarePriceMatch(text) ==
    MatchZero(text, [i \in 1..Len(text) |-> BarePriceEnd(text, i)])
BuyerMatch(text) == MatchZero(text, [i \in 1..Len(text) |-> BuyerEnd(text, i)])
SellerMatch(text) == MatchZero(text, [i \in 1..Len(text) |-> SellerEnd(text, i)])
ClosingDateMatch(text) ==
    MatchZero(text, [i \in 1..Len(text) |-> ClosingDateEnd(text, i)])
ExecutionDateMatch(text) ==
    MatchZero(text, [i \in 1..Len(text) |-> ExecutionDateEnd(text, i)])
EarnestMatch(text) == MatchZero(text, [i \in 1..Len(text) |-> EarnestEnd(text, i)])
LegalMatch(text) == MatchZero(text, [i \in 1..Len(text) |-> LegalEnd(text, i)])

\* the entry pushed for a match, none for null
Found(match, entry) == IF match = "" THEN << >> ELSE << entry >>

\* the address loop: the first pattern with a match supplies the value
AddressFields(text) ==
    LET labeled == LabeledAddressMatch(text)
        match   == IF labeled # "" THEN labeled ELSE BareAddressMatch(text)
    IN  Found(match,
              Field("Property Address", Trim(RemoveLeadingLabel(match, AddressKeywords)), 85))

\* the price loop with its alternatives in the other order
PriceFieldsBareFirst(text) ==
    LET bare  == BarePriceMatch(text)
        match == IF bare # "" THEN bare ELSE LabeledPriceMatch(text)
    IN  Found(match, Field("Purchase Price", "$" \o InnerAmount(match), 90))

\* the price loop
PriceFields(text) ==
    LET labeled == LabeledPriceMatch(text)
        match   == IF labeled # "" THEN labeled ELSE BarePriceMatch(text)
    IN  Found(match, Field("Purchase Price", "$" \o InnerAmount(match), 90))

BuyerFields(text) ==
    LET match == BuyerMatch(text)
    IN  Found(match, Field("Buyer Name", Trim(RemoveLabels(match, 1, BuyerKeywords)), 80))

SellerFields(text) ==
    LET match == SellerMatch(text)
    IN  Found(match, Field("Seller Name", Trim(RemoveLabels(match, 1, SellerKeywords)), 80))

\* datePatterns.forEach: index 0 is the closing date, index 1 the execution date
DateFields(text) ==
    LET closing   == ClosingDateMatch(text)
        execution == ExecutionDateMatch(text)
    IN  Found(closing, Field("Closing Date", InnerDate(closing), 75))
        \o Found(execution, Field("Execution Date", InnerDate(execution), 75))

EarnestFields(text) ==
    LET match == EarnestMatch(text)
    IN  Found(match, Field("Earnest Money", "$" \o InnerAmount(match), 85))

LegalFields(text) ==
    LET match == LegalMatch(text)
    IN  Found(match, Field("Legal Description", Trim(RemoveLabels(match, 1, LegalLabel)), 70))

extractFieldsFromText(text) ==
    AddressFields(text) \o PriceFields(text) \o BuyerFields(text) \o SellerFields(text)
        \o DateFields(text) \o EarnestFields(text) \o LegalFields(text)

requiredFields ==
    << "Property Address", "Legal Description", "Buyer Name", "Seller Name",
       "Purchase Price", "Earnest Money", "Execution Date", "Closing Date" >>

HasField(fields, name) == \E i \in 1..Len(fields) : fields[i].field = name

RECURSIVE AddMissingUnchecked(_, _)
\* the loop without its find: every required name is pushed
AddMissingUnchecked(fields, n) ==
    IF n > Len(requiredFields) THEN fields
    ELSE AddMissingUnchecked(Append(fields, Field(requiredFields[n], "", 0)), n + 1)

RECURSIVE AddMissing(_, _)
\* requiredFields.forEach from index n on: a name no entry carries yet is
\* pushed with an empty value and confidence 0
AddMissing(fields, n) ==
    IF n > Len(requiredFields) THEN fields
    ELSE IF HasField(fields, requiredFields[n]) THEN AddMissing(fields, n + 1)
    ELSE AddMissing(Append(fields, Field(requiredFields[n], "", 0)), n + 1)

\* finalFields of processDocument and of reprocessFields
FinalFields(text) == AddMissing(extractFieldsFromText(text), 1)

(***************************************************************************)
(* processPDFWithOCR.  The function's locals are the variables; a step of  *)
(* the function is computed on a record of them and then stored.           *)
(***************************************************************************)
Cur ==
    [pc |-> pc, pageNum |-> pageNum, totalPages |-> totalPages,
     allText |-> allText, totalConfidence |-> totalConfidence,
     processedPages |-> processedPages, failedPages |-> failedPages,
     result |-> result, events |-> events, pageState |-> pageState,
     written |-> written, inflight |-> inflight, settled |-> settled,
     recognizeArgs |-> recognizeArgs, canvases |-> canvases]

\* the callback processDocument passes: the page shows the step of the
\* event and its details
Progress(event) ==
    /\ currentStep' = event.step
    /\ processingProgress' = [pageNumber |-> event.pageNumber,
                              error |-> event.kind \in {"error", "fallback"}]

Store(r) ==
    /\ pc' = r.pc
    /\ pageNum' = r.pageNum
    /\ totalPages' = r.totalPages
    /\ allText' = r.allText
    /\ totalConfidence' = r.totalConfidence
    /\ processedPages' = r.processedPages
    /\ failedPages' = r.failedPages
    /\ result' = r.result
    /\ events' = r.events
    /\ pageState' = r.pageState
    /\ written' = r.written
    /\ inflight' = r.inflight
    /\ settled' = r.settled
    /\ recognizeArgs' = r.recognizeArgs
    /\ canvases' = r.canvases
    /\ UNCHANGED << file, callback, previous, tesseractConfig,
                    tesseractConfigState >>
    /\ IF mounted /\ Len(r.events) > Len(events)
       THEN Progress(r.events[Len(r.events)])
       ELSE UNCHANGED << currentStep, processingProgress >>
    /\ UNCHANGED << mounted, extractedData, extractedText, ocrConfidence,
                    isProcessing, processingError, extractedFrom, documentNotes,
                    update, manual >>
    /\ download' = NoDownload

\* what the libraries do on page p of the document
Outcome(p) ==
    file.doc.outcomes[((p - 1) % Len(file.doc.outcomes)) + 1]

Pending == [status |-> "pending", text |-> "", confidence |-> [num |-> 0, den |-> 1], error |-> ""]
Returned(text, conf) == [status |-> "returned", text |-> text, confidence |-> conf, error |-> ""]
Threw(msg) == [status |-> "threw", text |-> "", confidence |-> [num |-> 0, den |-> 1], error |-> msg]

\* the step field of the event of each kind
StepOf(kind) == IF kind \in {"error", "ocrProgress"} THEN "ocr" ELSE kind

\* onProgress?.(event): nothing without a callback
Emit(r, kind, page) ==
    IF callback.present
    THEN [r EXCEPT !.events = Append(@, [kind |-> kind, step |-> StepOf(kind), pageNumber |-> page])]
    ELSE r

\* the callback raises an error on this kind of event
Throws(kind) == callback.present /\ kind \in callback.throwsOn

\* an outer catch that re-throws without a report
FailUnreported(r, msg) ==
    [r EXCEPT !.pc = "done", !.result = Threw(msg)]

\* the outer catch: report 'fallback', then re-throw
Fail(r, msg) ==
    [(IF callback.present
      THEN [r EXCEPT !.events = Append(@, [kind |-> "fallback", step |-> "fallback",
                                           pageNumber |-> 0, error |-> msg])]
      ELSE r) EXCEPT
        !.pc = "done",
        !.result = Threw(IF Throws("fallback") THEN CallbackErrorMessage ELSE msg)]

\* totalConfidence / processedPages, as the fraction num / den
Average(total, n) == IF n > 0 THEN [num |-> total, den |-> n] ELSE [num |-> 0, den |-> 1]

\* Finish dividing by the page count instead of the successful pages
FinishOverAllPages(r) ==
    IF r.processedPages = 0
    THEN Fail(r, NoUsableTextMessage)
    ELSE [r EXCEPT !.pc = "done",
                   !.result = Returned(r.allText, Average(r.totalConfidence, r.totalPages))]

\* Finish without the zero-success check
FinishUnchecked(r) ==
    [r EXCEPT !.pc = "done",
              !.result = Returned(r.allText, Average(r.totalConfidence, r.processedPages))]

\* after the loop: the average, the zero-success check and the return
Finish(r) ==
    IF r.processedPages = 0
    THEN Fail(r, NoUsableTextMessage)
    ELSE [r EXCEPT !.pc = "done",
                   !.result = Returned(r.allText, Average(r.totalConfidence, r.processedPages))]

RECURSIVE BeginPage(_), PageCatch(_, _), NextIteration(_)

\* pageNum++ and the loop test
NextIteration(r) ==
    LET r1 == [r EXCEPT !.pageNum = @ + 1]
    IN  IF r1.pageNum <= r1.totalPages THEN BeginPage(r1) ELSE Finish(r1)

\* PageCatch re-throwing the page's error instead of going on
PageCatchRethrows(r, msg) ==
    LET p  == r.pageNum
        r1 == [r EXCEPT !.allText = @ \o ErrorFragment(p, msg),
                        !.written = Append(@, p),
                        !.failedPages = @ + 1,
                        !.pageState[p] = "failed"]
    IN  Fail(Emit(r1, "error", p), msg)

\* the catch of the page's try block
PageCatch(r, msg) ==
    LET p  == r.pageNum
        r1 == [r EXCEPT !.allText = @ \o ErrorFragment(p, msg),
                        !.written = Append(@, p),
                        !.failedPages = @ + 1,
                        !.pageState[p] = "failed"]
        r2 == Emit(r1, "error", p)
    IN  IF Throws("error") THEN Fail(r2, CallbackErrorMessage) ELSE NextIteration(r2)

\* the head of the page's try block, up to the call of getPage
BeginPage(r) ==
    LET p  == r.pageNum
        r1 == Emit([r EXCEPT !.pageState[p] = "rasterizing"], "converting", p)
    IN  IF Throws("converting")
        THEN PageCatch(r1, CallbackErrorMessage)
        ELSE [r1 EXCEPT !.pc = "getPage"]

\* a path without a drawing context that leaves the page uncounted
ContextUnavailableUncounted(r) ==
    NextIteration([r EXCEPT !.pageState[r.pageNum] = "failed"])

\* canvas.getContext('2d') returned null
ContextUnavailable(r) ==
    NextIteration([r EXCEPT !.failedPages = @ + 1,
                            !.pageState[r.pageNum] = "failed"])

\* the page's deadline fired first: the operation is abandoned and, when the
\* environment keeps it running, it may still complete later
Abandon(r, stage, keep) ==
    IF keep /\ Cardinality(r.inflight \cup r.settled) < MaxAbandoned
    THEN [r EXCEPT !.inflight = @ \cup {[page |-> r.pageNum, stage |-> stage]}]
    ELSE r

\* tesseractOptions: the logger alone, no engine parameter
TesseractOptions == [logger |-> TRUE, parameters |-> {}]

\* workerOptions: the engine parameters built from the configuration
WorkerOptions(config) ==
    (IF config.pageSegMode # Undefined
     THEN {<< "tessedit_pageseg_mode", NumStr(config.pageSegMode) >>} ELSE {})
    \cup (IF config.ocrEngineMode # Undefined
          THEN {<< "tessedit_ocr_engine_mode", NumStr(config.ocrEngineMode) >>} ELSE {})
    \cup (IF config.preserveInterwordSpaces
          THEN {<< "preserve_interword_spaces", "1" >>} ELSE {})
    \cup (IF config.tesseditCharWhitelist # ""
          THEN {<< "tessedit_char_whitelist", config.tesseditCharWhitelist >>} ELSE {})
    \cup (IF config.tesseditCharBlacklist # ""
          THEN {<< "tessedit_char_blacklist", config.tesseditCharBlacklist >>} ELSE {})

\* Tesseract.recognize(imageDataUrl, tesseractConfig.language,
\* tesseractOptions) on the canvas of page p
RecognizeArgs(p) ==
    [page |-> p, image |-> Raster(Outcome(p)), language |-> tesseractConfig.language,
     logger |-> TesseractOptions.logger, parameters |-> TesseractOptions.parameters]

\* StartRecognition that does not await the recognition
StartRecognitionNoAwait(r) ==
    LET p  == r.pageNum
        r1 == Emit(r, "ocr", p)
    IN  IF Throws("ocr")
        THEN PageCatch(r1, CallbackErrorMessage)
        ELSE NextIteration([r1 EXCEPT !.pageState[p] = "recognizing",
                                      !.recognizeArgs = RecognizeArgs(p)])

\* the page was rendered: announce and start the recognition
StartRecognition(r) ==
    LET p  == r.pageNum
        r1 == Emit(r, "ocr", p)
    IN  IF Throws("ocr")
        THEN PageCatch(r1, CallbackErrorMessage)
        ELSE [r1 EXCEPT !.pc = "recognize", !.pageState[p] = "recognizing",
                        !.recognizeArgs = RecognizeArgs(p)]

\* Recognized without the look at the text: any text is accumulated
RecognizedUnchecked(r, text, confidence) ==
    LET p == r.pageNum
    IN  [r EXCEPT !.allText = @ \o ContentFragment(p, text),
                  !.written = Append(@, p),
                  !.totalConfidence = @ + confidence,
                  !.processedPages = @ + 1,
                  !.pageState[p] = "succeeded",
                  !.canvases = @ \ {p}]

\* Recognized with the confidence assigned instead of added
RecognizedOverwrites(r, text, confidence) ==
    LET p == r.pageNum
    IN  IF ~IsBlankText(text)
        THEN [r EXCEPT !.allText = @ \o ContentFragment(p, text),
                       !.written = Append(@, p),
                       !.totalConfidence = confidence,
                       !.processedPages = @ + 1,
                       !.pageState[p] = "succeeded",
                       !.canvases = @ \ {p}]
        ELSE [r EXCEPT !.allText = @ \o NoTextFragment(p),
                       !.written = Append(@, p),
                       !.failedPages = @ + 1,
                       !.pageState[p] = "failed",
                       !.canvases = @ \ {p}]

\* the recognition returned: usable text is accumulated, blank text is not
Recognized(r, text, confidence) ==
    LET p == r.pageNum
    IN  IF ~IsBlankText(text)
        THEN [r EXCEPT !.allText = @ \o ContentFragment(p, text),
                       !.written = Append(@, p),
                       !.totalConfidence = @ + confidence,
                       !.processedPages = @ + 1,
                       !.pageState[p] = "succeeded",
                       !.canvases = @ \ {p}]
        ELSE [r EXCEPT !.allText = @ \o NoTextFragment(p),
                       !.written = Append(@, p),
                       !.failedPages = @ + 1,
                       !.pageState[p] = "failed",
                       !.canvases = @ \ {p}]

\* LateSettlement whose continuation still accumulates the late result
LateSettlementApplies(r, op) ==
    [r EXCEPT !.inflight = @ \ {op}, !.settled = @ \cup {op},
              !.allText = @ \o ContentFragment(op.page, "late"),
              !.totalConfidence = @ + 95,
              !.processedPages = @ + 1]

\* a promise that lost its race settles: the race ignores it
LateSettlement(r, op) ==
    [r EXCEPT !.inflight = @ \ {op}, !.settled = @ \cup {op}]

(***************************************************************************)
(* Actions: one per continuation of processPDFWithOCR.                     *)
(***************************************************************************)
\* file.size > 50 * 1024 * 1024
TooLarge(size) == size > MaxFileSize

\* TooManyPages rejecting the limit itself
TooManyPagesInclusive(n) == n >= MaxPageCount

\* totalPages > 20
TooManyPages(n) == n > MaxPageCount

\* the checks on the file and the 'loading' event
Validate ==
    /\ pc = "start"
    /\ Store(IF file.type # PdfType
                THEN Fail(Cur, InvalidTypeMessage(file.type))
             ELSE IF TooLarge(file.size)
                THEN Fail(Cur, TooLargeMessage)
             ELSE IF Throws("loading")
                THEN Fail(Emit(Cur, "loading", 0), CallbackErrorMessage)
             ELSE [Emit(Cur, "loading", 0) EXCEPT !.pc = "parse"])

\* getDocument settles; the page count is checked and the loop entered
OpenDocument ==
    /\ pc = "parse"
    /\ Store(IF ~file.parses
                THEN Fail(Cur, ParseErrorMessage)
             ELSE IF file.doc.numPages = 0
                THEN Fail(Cur, NoPagesMessage)
             ELSE IF TooManyPages(file.doc.numPages)
                THEN Fail(Cur, TooManyPagesMessage)
             ELSE BeginPage([Cur EXCEPT
                    !.totalPages = file.doc.numPages,
                    !.pageNum = 1,
                    !.pageState = [p \in 1..file.doc.numPages |-> "pending"]]))

\* document.createElement('canvas') for the page
CreateCanvas(r) == [r EXCEPT !.canvases = @ \cup {r.pageNum}]

GetPageResolves ==
    /\ pc = "getPage"
    /\ Outcome(pageNum).kind \notin {"loadError", "loadTimeout"}
    /\ Store(IF Outcome(pageNum).kind = "noContext"
             THEN ContextUnavailable(CreateCanvas(Cur))
             ELSE [CreateCanvas(Cur) EXCEPT !.pc = "render"])

GetPageRejects ==
    /\ pc = "getPage"
    /\ Outcome(pageNum).kind = "loadError"
    /\ Store(PageCatch(Cur, LoadErrorMessage))

GetPageTimeout ==
    /\ pc = "getPage"
    /\ Outcome(pageNum).kind = "loadTimeout"
    /\ \E keep \in BOOLEAN :
         Store(PageCatch(Abandon(Cur, "getPage", keep), LoadTimeoutMessage(pageNum)))

RenderCompletes ==
    /\ pc = "render"
    /\ Outcome(pageNum).kind \notin {"renderError", "renderTimeout"}
    /\ Store(StartRecognition(Cur))

\* a render error after which the canvas is recognized all the same
RenderRejectsRecognizes ==
    /\ pc = "render"
    /\ Outcome(pageNum).kind = "renderError"
    /\ Store(StartRecognition(Cur))

RenderRejects ==
    /\ pc = "render"
    /\ Outcome(pageNum).kind = "renderError"
    /\ Store(PageCatch(Cur, RenderErrorMessage))

RenderTimeout ==
    /\ pc = "render"
    /\ Outcome(pageNum).kind = "renderTimeout"
    /\ \E keep \in BOOLEAN :
         Store(PageCatch(Abandon(Cur, "render", keep), RenderTimeoutMessage(pageNum)))

OcrResolves ==
    /\ pc = "recognize"
    /\ Outcome(pageNum).kind = "recognized"
    /\ Store(NextIteration(Recognized(Cur, Outcome(pageNum).text, Outcome(pageNum).confidence)))

OcrRejects ==
    /\ pc = "recognize"
    /\ Outcome(pageNum).kind = "ocrError"
    /\ Store(PageCatch(Cur, OcrErrorMessage))

\* a recognition that never answers and has no deadline
OcrTimeoutNeverFires ==
    /\ pc = "recognize"
    /\ Outcome(pageNum).kind = "ocrTimeout"
    /\ UNCHANGED vars

OcrTimeout ==
    /\ pc = "recognize"
    /\ Outcome(pageNum).kind = "ocrTimeout"
    /\ \E keep \in BOOLEAN :
         Store(PageCatch(Abandon(Cur, "recognize", keep), OcrTimeoutMessage(pageNum)))

\* an abandoned operation completes after its deadline
AbandonedSettles ==
    \E op \in inflight : Store(LateSettlement(Cur, op))

(***************************************************************************)
(* Specifications.                                                         *)
(***************************************************************************)
\* a file that passes the checks made before its pages are read
Acceptable(f) == f.type = PdfType /\ ~TooLarge(f.size) /\ f.parses

\* the files: any document in an acceptable file; a file that is not
\* acceptable is rejected before its content matters
Files(docs) ==
    [type : {PdfType}, size : {MaxFileSize}, parses : {TRUE}, doc : docs]
    \cup { f \in [type : FileTypes, size : FileSizes, parses : BOOLEAN,
                  doc : [numPages : {1}, outcomes : [1..1 -> PageOutcomes]]] :
             ~Acceptable(f) }

InitCall(files, callbacks) ==
    /\ file \in files
    /\ callback \in callbacks
    /\ pc = "start"
    /\ pageNum = 0
    /\ totalPages = 0
    /\ allText = ""
    /\ totalConfidence = 0
    /\ processedPages = 0
    /\ failedPages = 0
    /\ result = Pending
    /\ events = << >>
    /\ pageState = << >>
    /\ written = << >>
    /\ inflight = {}
    /\ settled = {}
    /\ previous = Pending
    /\ canvases = {}

\* the useState initial values of the page
InitialState ==
    /\ extractedData = << >>
    /\ extractedText = ""
    /\ ocrConfidence = [num |-> 0, den |-> 1]
    /\ isProcessing = TRUE
    /\ currentStep = "loading"
    /\ processingProgress = NoProgress
    /\ processingError = NoError
    /\ extractedFrom = ""
    /\ documentNotes = ""
    /\ download = NoDownload
    /\ update = NoUpdate
    /\ manual = {}
    /\ recognizeArgs = NoCall

\* a call of processPDFWithOCR that the page did not make
InitRun(files, callbacks) ==
    /\ InitCall(files, callbacks)
    /\ mounted = FALSE
    /\ InitialState
    /\ tesseractConfig = DEFAULT_TESSERACT_CONFIG
    /\ tesseractConfigState = tesseractConfig

\* a call of processPDFWithOCR without a callback or with one that returns
Init == InitRun(Files(DocumentsOf(MaxPages)), {NoCallback, ReturningCallback})

Next ==
    \/ Validate
    \/ OpenDocument
    \/ GetPageResolves
    \/ GetPageRejects
    \/ GetPageTimeout
    \/ RenderCompletes
    \/ RenderRejects
    \/ RenderTimeout
    \/ OcrResolves
    \/ OcrRejects
    \/ OcrTimeout
    \/ AbandonedSettles

Spec == Init /\ [][Next]_vars

\* the fate of a page in the runs followed to their end: recognized with
\* usable text, or failed at one stage
LiveOutcomes ==
    { o \in PageOutcomes : o.kind = "recognized" => (o.confidence = 95 /\ ~IsBlankText(o.text)) }

LiveDocuments ==
    UNION { [numPages : {n}, outcomes : [1..n -> LiveOutcomes]] : n \in 1..MaxPages }

InitLive == InitRun(Files(LiveDocuments), {ReturningCallback})

\* the promises of the libraries settle when they are to settle, and the
\* deadline timers fire
SpecLive == InitLive /\ [][Next]_vars /\ WF_vars(Next)

AnyCallback == {NoCallback, ReturningCallback} \cup ThrowingCallbacks

\* the state of a call that has just been entered
Entered ==
    [Cur EXCEPT !.pc = "start", !.pageNum = 0, !.totalPages = 0, !.allText = "",
                !.totalConfidence = 0, !.processedPages = 0, !.failedPages = 0,
                !.result = Pending, !.events = << >>, !.pageState = << >>,
                !.written = << >>]

\* processPDFWithOCR is called once more on the same file, with any callback
CallAgain ==
    /\ pc = "done"
    /\ previous = Pending
    /\ previous' = result
    /\ callback' \in AnyCallback
    /\ UNCHANGED << file, mounted, extractedData, extractedText, ocrConfidence,
                    isProcessing, currentStep, processingProgress, processingError,
                    extractedFrom, documentNotes, download, update, manual,
                    tesseractConfig, tesseractConfigState, recognizeArgs, canvases >>
    /\ LET r == Entered
       IN  /\ pc' = r.pc /\ pageNum' = r.pageNum /\ totalPages' = r.totalPages
           /\ allText' = r.allText /\ totalConfidence' = r.totalConfidence
           /\ processedPages' = r.processedPages /\ failedPages' = r.failedPages
           /\ result' = r.result /\ events' = r.events
           /\ pageState' = r.pageState /\ written' = r.written
           /\ inflight' = r.inflight /\ settled' = r.settled

\* a first call without callback, then a second call with any callback
InitCallback == InitRun(Files(DocumentsOf(MaxPages)), {NoCallback})

NextCallback == Next \/ CallAgain

SpecCallback == InitCallback /\ [][NextCallback]_vars

\* the documents of one page
OnePageDocuments == [numPages : {1}, outcomes : [1..1 -> PageOutcomes]]

\* a call on a document of one page with any configuration
InitConfig ==
    /\ InitCall(Files(OnePageDocuments), {NoCallback, ReturningCallback})
    /\ mounted = FALSE
    /\ InitialState
    /\ tesseractConfig \in TesseractConfigs \cup {DEFAULT_TESSERACT_CONFIG}
    /\ tesseractConfigState = tesseractConfig

SpecConfig == InitConfig /\ [][Next]_vars

(***************************************************************************)
(* The ProcessContract page: processDocument around processPDFWithOCR, the *)
(* text box and the re-extraction.                                         *)
(***************************************************************************)
\* the review view is rendered: neither the spinner nor the error view
ReviewShown == mounted /\ ~isProcessing /\ processingError = NoError

\* processDocument after its await, the call having returned
ProcessDocumentReturns ==
    /\ mounted /\ isProcessing
    /\ pc = "done"
    /\ result.status = "returned"
    /\ extractedText' = result.text
    /\ ocrConfidence' = result.confidence
    /\ extractedData' = FinalFields(result.text)
    /\ extractedFrom' = result.text
    /\ manual' = {}
    /\ update' = NoUpdate
    /\ currentStep' = "review"
    /\ isProcessing' = FALSE
    /\ download' = NoDownload
    /\ UNCHANGED << tesseractConfig, tesseractConfigState, recognizeArgs, canvases, file, callback, pc, pageNum, totalPages, allText, totalConfidence,
                    processedPages, failedPages, result, events, pageState, written,
                    inflight, settled, previous, mounted, processingProgress,
                    processingError, documentNotes >>

\* the catch of processDocument, the call having thrown
ProcessDocumentFails ==
    /\ mounted /\ isProcessing
    /\ pc = "done"
    /\ result.status = "threw"
    /\ processingError' = result.error
    /\ isProcessing' = FALSE
    /\ currentStep' = "fallback"
    /\ UNCHANGED << tesseractConfig, tesseractConfigState, recognizeArgs, canvases, file, callback, pc, pageNum, totalPages, allText, totalConfidence,
                    processedPages, failedPages, result, events, pageState, written,
                    inflight, settled, previous, mounted, extractedData, extractedText,
                    ocrConfidence, processingProgress, extractedFrom, documentNotes,
                    update, manual >>
    /\ download' = NoDownload

\* the text box changes: onTextUpdate is setExtractedText
onTextUpdate ==
    /\ ReviewShown
    /\ \E text \in EditedTexts : extractedText' = text
    /\ UNCHANGED << tesseractConfig, tesseractConfigState, recognizeArgs, canvases, file, callback, pc, pageNum, totalPages, allText, totalConfidence,
                    processedPages, failedPages, result, events, pageState, written,
                    inflight, settled, previous, mounted, extractedData, ocrConfidence,
                    isProcessing, currentStep, processingProgress, processingError,
                    extractedFrom, documentNotes, update, manual >>
    /\ download' = NoDownload

\* a re-extraction that keeps the entries updated by hand
reprocessFieldsMerging ==
    /\ ReviewShown
    /\ ~IsBlankText(extractedText)
    /\ extractedData' =
          [i \in 1..Len(FinalFields(extractedText)) |->
              IF \E j \in 1..Len(extractedData) :
                    /\ extractedData[j].field = FinalFields(extractedText)[i].field
                    /\ extractedData[j].field \in manual
              THEN [FinalFields(extractedText)[i] EXCEPT
                       !.value = update.value, !.confidence = 100]
              ELSE FinalFields(extractedText)[i]]
    /\ extractedFrom' = extractedText
    /\ manual' = {}
    /\ download' = NoDownload
    /\ UNCHANGED << tesseractConfig, tesseractConfigState, recognizeArgs, canvases, file, callback, pc, pageNum, totalPages, allText, totalConfidence,
                    processedPages, failedPages, result, events, pageState, written,
                    inflight, settled, previous, mounted, extractedText, ocrConfidence,
                    isProcessing, currentStep, processingProgress, processingError,
                    documentNotes, update >>

\* the button is disabled while the text is blank
reprocessFields ==
    /\ ReviewShown
    /\ ~IsBlankText(extractedText)
    /\ extractedData' = FinalFields(extractedText)
    /\ extractedFrom' = extractedText
    /\ manual' = {}
    /\ download' = NoDownload
    /\ UNCHANGED << tesseractConfig, tesseractConfigState, recognizeArgs, canvases, file, callback, pc, pageNum, totalPages, allText, totalConfidence,
                    processedPages, failedPages, result, events, pageState, written,
                    inflight, settled, previous, mounted, extractedText, ocrConfidence,
                    isProcessing, currentStep, processingProgress, processingError,
                    documentNotes, update >>

\* a reprocessing that runs with the configuration of the run before
handleReprocessWithOldConfig ==
    /\ ReviewShown
    /\ processingError' = NoError
    /\ isProcessing' = TRUE
    /\ currentStep' = "loading"
    /\ LET r == Entered
       IN  /\ pc' = r.pc /\ pageNum' = r.pageNum /\ totalPages' = r.totalPages
           /\ allText' = r.allText /\ totalConfidence' = r.totalConfidence
           /\ processedPages' = r.processedPages /\ failedPages' = r.failedPages
           /\ result' = r.result /\ events' = r.events
           /\ pageState' = r.pageState /\ written' = r.written
           /\ inflight' = r.inflight /\ settled' = r.settled
    /\ tesseractConfig' = tesseractConfig
    /\ download' = NoDownload
    /\ UNCHANGED << tesseractConfigState, recognizeArgs, canvases, file, callback, previous, mounted, extractedData, extractedText,
                    ocrConfidence, processingProgress, extractedFrom, documentNotes,
                    update, manual >>

\* a reprocessing offered whatever the page shows
handleReprocessUngated ==
    /\ mounted
    /\ processingError' = NoError
    /\ isProcessing' = TRUE
    /\ currentStep' = "loading"
    /\ LET r == Entered
       IN  /\ pc' = r.pc /\ pageNum' = r.pageNum /\ totalPages' = r.totalPages
           /\ allText' = r.allText /\ totalConfidence' = r.totalConfidence
           /\ processedPages' = r.processedPages /\ failedPages' = r.failedPages
           /\ result' = r.result /\ events' = r.events
           /\ pageState' = r.pageState /\ written' = r.written
           /\ inflight' = r.inflight /\ settled' = r.settled
    /\ tesseractConfig' = tesseractConfigState
    /\ download' = NoDownload
    /\ UNCHANGED << tesseractConfigState, recognizeArgs, canvases, file, callback, previous, mounted, extractedData, extractedText,
                    ocrConfidence, processingProgress, extractedFrom, documentNotes,
                    update, manual >>

\* processDocument(tesseractConfig) up to its await
handleReprocessWithNewConfig ==
    /\ ReviewShown
    /\ processingError' = NoError
    /\ isProcessing' = TRUE
    /\ currentStep' = "loading"
    /\ LET r == Entered
       IN  /\ pc' = r.pc /\ pageNum' = r.pageNum /\ totalPages' = r.totalPages
           /\ allText' = r.allText /\ totalConfidence' = r.totalConfidence
           /\ processedPages' = r.processedPages /\ failedPages' = r.failedPages
           /\ result' = r.result /\ events' = r.events
           /\ pageState' = r.pageState /\ written' = r.written
           /\ inflight' = r.inflight /\ settled' = r.settled
    /\ tesseractConfig' = tesseractConfigState
    /\ download' = NoDownload
    /\ UNCHANGED << tesseractConfigState, recognizeArgs, canvases, file, callback, previous, mounted, extractedData, extractedText,
                    ocrConfidence, processingProgress, extractedFrom, documentNotes,
                    update, manual >>

\* prev.map leaving the confidence as it was
UpdatedFieldsKeepConfidence(fields, name, value) ==
    [i \in 1..Len(fields) |->
        IF fields[i].field = name
        THEN [fields[i] EXCEPT !.value = value]
        ELSE fields[i]]

\* prev.map of handleFieldUpdate: the entries called name get the value and
\* confidence 100
UpdatedFields(fields, name, value) ==
    [i \in 1..Len(fields) |->
        IF fields[i].field = name
        THEN [fields[i] EXCEPT !.value = value, !.confidence = 100]
        ELSE fields[i]]

\* a field of the FieldExtractor form changes
handleFieldUpdate ==
    /\ ReviewShown
    /\ update.n < MaxEdits
    /\ \E i \in 1..Len(extractedData), value \in EditedValues :
          /\ extractedData[i].field \in EditedFields
          /\ extractedData' = UpdatedFields(extractedData, extractedData[i].field, value)
          /\ update' = [n |-> update.n + 1, field |-> extractedData[i].field,
                        value |-> value]
          /\ manual' = manual \cup {extractedData[i].field}
    /\ download' = NoDownload
    /\ UNCHANGED << tesseractConfig, tesseractConfigState, recognizeArgs, canvases, file, callback, pc, pageNum, totalPages, allText, totalConfidence,
                    processedPages, failedPages, result, events, pageState, written,
                    inflight, settled, previous, mounted, extractedText, ocrConfidence,
                    isProcessing, currentStep, processingProgress, processingError,
                    extractedFrom, documentNotes >>

\* the notes box changes: onNotesChange is setDocumentNotes
onNotesChange ==
    /\ ReviewShown
    /\ \E notes \in NotesTexts : documentNotes' = notes
    /\ download' = NoDownload
    /\ UNCHANGED << tesseractConfig, tesseractConfigState, recognizeArgs, canvases, file, callback, pc, pageNum, totalPages, allText, totalConfidence,
                    processedPages, failedPages, result, events, pageState, written,
                    inflight, settled, previous, mounted, extractedData, extractedText,
                    ocrConfidence, isProcessing, currentStep, processingProgress,
                    processingError, extractedFrom, update, manual >>

CsvHeaders ==
    << "Filename", "Property Address", "Legal Description", "Buyer", "Seller",
       "Purchase Price", "Earnest Money", "Execution Date", "Closing Date", "Notes" >>

RECURSIVE Join(_, _)
\* Array.prototype.join
Join(cells, separator) ==
    IF cells = << >> THEN ""
    ELSE IF Len(cells) = 1 THEN cells[1]
    ELSE cells[1] \o separator \o Join(Tail(cells), separator)

\* row.map(field => `"${field}"`).join(",")
CsvRow(cells) == Join([i \in 1..Len(cells) |-> "\"" \o cells[i] \o "\""], ",")

\* csvContent: the header row and the data row
CsvContent(fields, notes) ==
    Join(<< CsvRow(CsvHeaders),
            CsvRow(<< FileId >> \o [i \in 1..Len(fields) |-> fields[i].value] \o << notes >>) >>,
         "\n")

\* the Export CSV button of the header, shown in the review step
exportToCSV ==
    /\ mounted
    /\ currentStep = "review"
    /\ download' = CsvContent(extractedData, documentNotes)
    /\ UNCHANGED << tesseractConfig, tesseractConfigState, recognizeArgs, canvases, file, callback, pc, pageNum, totalPages, allText, totalConfidence,
                    processedPages, failedPages, result, events, pageState, written,
                    inflight, settled, previous, mounted, extractedData, extractedText,
                    ocrConfidence, isProcessing, currentStep, processingProgress,
                    processingError, extractedFrom, documentNotes, update, manual >>

\* the page is mounted with a file and calls processDocument
InitPage ==
    /\ InitCall(Files(ContractDocuments), {ReturningCallback})
    /\ mounted = TRUE
    /\ InitialState
    /\ tesseractConfig = DEFAULT_TESSERACT_CONFIG
    /\ tesseractConfigState = tesseractConfig

NextPage ==
    \/ Next
    \/ ProcessDocumentReturns
    \/ ProcessDocumentFails
    \/ onTextUpdate
    \/ reprocessFields
    \/ handleReprocessWithNewConfig
    \/ handleFieldUpdate
    \/ onNotesChange
    \/ exportToCSV

SpecPage == InitPage /\ [][NextPage]_vars

(***************************************************************************)
(* The page with its configuration panel: the configuration is changed in *)
(* the review view and the document processed again with it.              *)
(***************************************************************************)
\* the configurations chosen in the panel: the contract preset, the form
\* preset, and the contract preset in another language
PanelConfigs ==
    { DEFAULT_TESSERACT_CONFIG,
      [DEFAULT_TESSERACT_CONFIG EXCEPT !.pageSegMode = 4],
      [DEFAULT_TESSERACT_CONFIG EXCEPT !.language = "spa"] }

\* setTesseractConfig(newConfig); the panel is part of the review view
handleTesseractConfigChange ==
    /\ ReviewShown
    /\ \E newConfig \in PanelConfigs : tesseractConfigState' = newConfig
    /\ download' = NoDownload
    /\ UNCHANGED << tesseractConfig, recognizeArgs, canvases, file, callback,
                    pc, pageNum, totalPages, allText, totalConfidence,
                    processedPages, failedPages, result, events, pageState,
                    written, inflight, settled, previous, mounted,
                    extractedData, extractedText, ocrConfidence, isProcessing,
                    currentStep, processingProgress, processingError,
                    extractedFrom, documentNotes, update, manual >>

NextPanel ==
    \/ Next
    \/ ProcessDocumentReturns
    \/ ProcessDocumentFails
    \/ onTextUpdate
    \/ handleTesseractConfigChange
    \/ handleReprocessWithNewConfig

SpecPanel == InitPage /\ [][NextPanel]_vars

(***************************************************************************)
(* The page during one call of processDocument, with the reports of the   *)
(* logger passed to the engine.                                            *)
(***************************************************************************)
\* the pages whose recognition is running: the one awaited and those
\* abandoned at their deadline
RecognizingPages ==
    (IF pc = "recognize" THEN {pageNum} ELSE {})
    \cup { op.page : op \in { o \in inflight : o.stage = "recognize" } }

\* the reports the logger of the recognition of page p has made
Reports(p) ==
    Cardinality({ i \in 1..Len(events) :
                    events[i].kind = "ocrProgress" /\ events[i].pageNumber = p })

\* tesseractOptions.logger on 'recognizing text': onProgress with the page
\* of the recognition
LoggerReports ==
    /\ callback.present
    /\ \E p \in RecognizingPages :
          /\ Reports(p) < MaxReports
          /\ Store(Emit(Cur, "ocrProgress", p))

\* a contract of several pages whose recognitions answer or do not
LoggerOutcomes ==
    { o \in ContractOutcomes :
        \/ o.kind = "ocrTimeout"
        \/ o.kind = "recognized" /\ o.text = "Page 2 of 2" }

LoggerDocuments ==
    [numPages : {1}, outcomes : [1..1 -> ContractOutcomes]]
    \cup UNION { [numPages : {n}, outcomes : [1..2 -> LoggerOutcomes]] :
                 n \in 2..MaxContractPages }

InitLogger ==
    /\ InitCall(Files(LoggerDocuments), {ReturningCallback})
    /\ mounted = TRUE
    /\ InitialState
    /\ tesseractConfig = DEFAULT_TESSERACT_CONFIG
    /\ tesseractConfigState = tesseractConfig

NextLogger ==
    \/ Next
    \/ LoggerReports
    \/ ProcessDocumentReturns
    \/ ProcessDocumentFails

SpecLogger == InitLogger /\ [][NextLogger]_vars

(***************************************************************************)
(* extractFieldsFromText alone, applied to one text.                       *)
(***************************************************************************)
\* what precedes the line under test: nothing, a price label without an
\* amount, a street line and a deposit before a labeled address
ExtractPrefixes ==
    {"", "Sale price: TBD\n", "14 Oak Ave\nDeposit: $500\nProperty: 12 Main St\n"}

\* amounts of digits and commas, with and without a decimal part
Amounts == {"1,250,000.00", "9,000", "75"}

PurchasePriceLabel == "Purchase Price: $"

\* the line under test
ExtractMiddles ==
    { PurchasePriceLabel \o a : a \in Amounts }
    \cup {"sale price 9,000", "$5", "located at the corner", "Total Price:$1,2.50",
          "Price: 100"}

\* what follows it
ExtractSuffixes == {"", "\n", ".5 due", "\nBuyer: Al\n$7"}

ExtractTexts ==
    { p \o m \o s : p \in ExtractPrefixes, m \in ExtractMiddles, s \in ExtractSuffixes }

\* a text is about to be passed to extractFieldsFromText
InitExtract ==
    /\ file = [type |-> PdfType, size |-> MaxFileSize, parses |-> TRUE,
               doc |-> [numPages |-> 1,
                        outcomes |-> << [kind |-> "recognized", confidence |-> 95,
                                         text |-> ""] >>]]
    /\ callback = NoCallback
    /\ pc = "extract"
    /\ pageNum = 0
    /\ totalPages = 0
    /\ allText = ""
    /\ totalConfidence = 0
    /\ processedPages = 0
    /\ failedPages = 0
    /\ result = Pending
    /\ events = << >>
    /\ pageState = << >>
    /\ written = << >>
    /\ inflight = {}
    /\ settled = {}
    /\ previous = Pending
    /\ mounted = FALSE
    /\ extractedData = << >>
    /\ extractedText \in ExtractTexts
    /\ ocrConfidence = [num |-> 0, den |-> 1]
    /\ isProcessing = TRUE
    /\ currentStep = "loading"
    /\ processingProgress = NoProgress
    /\ processingError = NoError
    /\ extractedFrom = ""
    /\ documentNotes = ""
    /\ download = NoDownload
    /\ update = NoUpdate
    /\ manual = {}
    /\ tesseractConfig = DEFAULT_TESSERACT_CONFIG
    /\ tesseractConfigState = tesseractConfig
    /\ recognizeArgs = NoCall
    /\ canvases = {}

\* the call returns its list
ExtractFields ==
    /\ pc = "extract"
    /\ pc' = "extracted"
    /\ extractedData' = extractFieldsFromText(extractedText)
    /\ extractedFrom' = extractedText
    /\ UNCHANGED << tesseractConfig, tesseractConfigState, recognizeArgs, canvases, file, callback, pageNum, totalPages, allText, totalConfidence,
                    processedPages, failedPages, result, events, pageState, written,
                    inflight, settled, previous, mounted, extractedText, ocrConfidence,
                    isProcessing, currentStep, processingProgress, processingError,
                    documentNotes, download, update, manual >>

NextExtract == ExtractFields

SpecExtract == InitExtract /\ [][NextExtract]_vars

(***************************************************************************)
(* Reading a returned text back: the page markers it contains.             *)
(***************************************************************************)
MarkerPrefix == "\n--- Page "

IsDigit(c) == \E d \in 0..9 : Digit(d) = c
DigitValue(c) == CHOOSE d \in 0..9 : Digit(d) = c

RECURSIVE DigitsEnd(_, _)
\* the first position at or after i that holds no digit
DigitsEnd(t, i) ==
    IF i <= Len(t) /\ IsDigit(CharAt(t, i)) THEN DigitsEnd(t, i + 1) ELSE i

RECURSIVE NumVal(_)
\* the number a numeral denotes
NumVal(ds) ==
    IF Len(ds) = 0 THEN 0
    ELSE 10 * NumVal(SubSeq(ds, 1, Len(ds) - 1)) + DigitValue(CharAt(ds, Len(ds)))

StartsWithAt(t, i, w) ==
    /\ i >= 1
    /\ i + Len(w) - 1 <= Len(t)
    /\ SubSeq(t, i, i + Len(w) - 1) = w

RECURSIVE MessageEnd(_, _)
\* the end of the error message that starts at i: where ") ---" closes it
MessageEnd(t, i) ==
    IF i > Len(t) \/ StartsWithAt(t, i, ") ---\n") THEN i ELSE MessageEnd(t, i + 1)

\* the marker whose prefix starts at position i of t
MarkerAt(t, i) ==
    LET a == i + Len(MarkerPrefix)
        b == DigitsEnd(t, a)
        page == NumVal(SubSeq(t, a, b - 1))
    IN  IF b = a THEN [kind |-> "none", page |-> 0, message |-> ""]
        ELSE IF StartsWithAt(t, b, " ---\n")
            THEN [kind |-> "content", page |-> page, message |-> ""]
        ELSE IF StartsWithAt(t, b, " (No text found) ---\n")
            THEN [kind |-> "notext", page |-> page, message |-> ""]
        ELSE IF StartsWithAt(t, b, " (Error: ")
            THEN [kind |-> "error", page |-> page,
                  message |-> SubSeq(t, b + 9, MessageEnd(t, b + 9) - 1)]
        ELSE [kind |-> "none", page |-> 0, message |-> ""]

MarkerPositions(t) ==
    { i \in 1..Len(t) : StartsWithAt(t, i, MarkerPrefix) /\ MarkerAt(t, i).kind # "none" }

RECURSIVE MarkersFrom(_, _)
MarkersFrom(t, ps) ==
    IF ps = {} THEN << >>
    ELSE LET i == CHOOSE x \in ps : \A y \in ps : x <= y
         IN  << MarkerAt(t, i) >> \o MarkersFrom(t, ps \ {i})

\* the page markers of a text, in their order in the text
Markers(t) == MarkersFrom(t, MarkerPositions(t))

(***************************************************************************)
(* What the document decides: which pages succeed.                         *)
(***************************************************************************)
ValidFile ==
    /\ file.type = PdfType
    /\ file.size <= MaxFileSize
    /\ file.parses
    /\ file.doc.numPages \in 1..MaxPageCount

\* page p renders and is recognized with usable text
Succeeds(p) == Outcome(p).kind = "recognized" /\ ~IsBlankText(Outcome(p).text)

SuccessfulPages == { p \in 1..file.doc.numPages : Succeeds(p) }

RECURSIVE SumConfidence(_)
\* the sum of the confidences the engine reports for a set of pages
SumConfidence(ps) ==
    IF ps = {} THEN 0
    ELSE LET p == CHOOSE x \in ps : TRUE
         IN  Outcome(p).confidence + SumConfidence(ps \ {p})

Ended == pc = "done"
HasReturned == result.status = "returned"

\* C1: when every page of an N-page document (1 <= N <= 20) is recognized
\* with non-blank text, the run returns a text with exactly the N headers
\* '--- Page p ---', p = 1..N in ascending order, and the confidence times N
\* is the sum of the per-page confidences.
AllPagesSucceedResult ==
    (Ended /\ ValidFile /\ SuccessfulPages = 1..file.doc.numPages) =>
        /\ HasReturned
        /\ Markers(result.text) =
             [p \in 1..file.doc.numPages |-> [kind |-> "content", page |-> p, message |-> ""]]
        /\ result.confidence.num * file.doc.numPages =
             result.confidence.den * SumConfidence(1..file.doc.numPages)

\* three pages, all recognized, with different confidences
AllPagesSucceedWitness ==
    /\ Ended /\ ValidFile /\ HasReturned
    /\ file.doc.numPages = 3
    /\ SuccessfulPages = 1..3
    /\ Outcome(1).confidence # Outcome(2).confidence
    /\ Outcome(3).confidence > 0

\* C2: when K pages succeed and N-K fail, 1 <= K < N, the run returns and
\* the confidence is the mean over the K successful pages only.
PartialSuccessMean ==
    LET K == Cardinality(SuccessfulPages)
    IN  (Ended /\ ValidFile /\ K >= 1 /\ K < file.doc.numPages) =>
            /\ HasReturned
            /\ result.confidence.den > 0
            /\ result.confidence.num * K =
                 result.confidence.den * SumConfidence(SuccessfulPages)

\* two pages succeed with a positive sum and one page fails
PartialSuccessWitness ==
    /\ Ended /\ ValidFile /\ HasReturned
    /\ file.doc.numPages = 3
    /\ Cardinality(SuccessfulPages) = 2
    /\ SumConfidence(SuccessfulPages) > 0

\* C3: a returned text holds N markers, one per page 1..N in ascending order
\* (stated as claimed; the code drops the page whose drawing surface is
\* unavailable).
EveryPageHasMarker ==
    (Ended /\ HasReturned) =>
        /\ Len(Markers(result.text)) = file.doc.numPages
        /\ \A p \in 1..file.doc.numPages : Markers(result.text)[p].page = p

\* C4: when no page yields usable text the run fails with the no-usable-text
\* error; a returned aggregate always comes from at least one successful page.
NoUsableTextFails ==
    /\ (Ended /\ ValidFile /\ SuccessfulPages = {}) => result = Threw(NoUsableTextMessage)
    /\ (Ended /\ HasReturned) =>
          /\ SuccessfulPages # {}
          /\ processedPages >= 1
          /\ result.confidence.den = processedPages

\* several pages, none usable, the run has failed
NoUsableTextWitness ==
    /\ Ended /\ ValidFile
    /\ file.doc.numPages = 3
    /\ SuccessfulPages = {}
    /\ Outcome(1).kind = "recognized" /\ Outcome(1).confidence > 0
    /\ Outcome(2).kind = "ocrTimeout"
    /\ result.status = "threw"

Terminal == {"succeeded", "failed"}
Pages == DOMAIN pageState

\* C5: a failure of page p at any stage is contained to page p: the run is
\* never aborted by it and every later page is still attempted.
PageFailureContained ==
    /\ (Ended /\ ValidFile) =>
          /\ \A p \in 1..file.doc.numPages : pageState[p] \in Terminal
          /\ result.status = "threw" =>
                (result.error = NoUsableTextMessage /\ SuccessfulPages = {})
    /\ \A p \in Pages :
          (pageState[p] = "failed" /\ ~Ended) =>
              (pageNum > p /\ pageState[p + 1] # "pending")

\* failures at two different stages, then a page that succeeds
PageFailureContainedWitness ==
    /\ Ended /\ ValidFile /\ HasReturned
    /\ file.doc.numPages = 3
    /\ Outcome(1).kind = "renderError"
    /\ Outcome(2).kind = "noContext"
    /\ pageState[3] = "succeeded"

EndsWith(t, w) == Len(w) <= Len(t) /\ SubSeq(t, Len(t) - Len(w) + 1, Len(t)) = w

\* the marker a recognition timeout leaves for page p
OcrTimeoutMarker(p) == [kind |-> "error", page |-> p, message |-> OcrTimeoutMessage(p)]

\* a page whose recognition timed out is failed; its timeout marker is the
\* last fragment when the next page starts and is in the text at the end,
\* and the later pages end as their own outcome decides
OcrTimeoutHandled ==
    LET ms == Markers(allText)
    IN  \A p \in Pages :
          (Outcome(p).kind = "ocrTimeout" /\ (pageNum > p \/ Ended)) =>
              /\ pageState[p] = "failed"
              /\ (written # << >> /\ written[Len(written)] = p) =>
                    EndsWith(allText, ErrorFragment(p, OcrTimeoutMessage(p)))
              /\ Ended =>
                    /\ \E i \in 1..Len(ms) : ms[i] = OcrTimeoutMarker(p)
                    /\ \A q \in (p + 1)..totalPages :
                          pageState[q] = IF Succeeds(q) THEN "succeeded" ELSE "failed"

LateSettlementIgnored ==
    (settled' # settled) =>
        UNCHANGED << allText, totalConfidence, processedPages, failedPages,
                     pageState, result, pc, pageNum >>

\* C6: when the deadline of the recognition of page p fires first, page p is
\* failed with a timeout marker, the later pages are processed normally, and
\* the abandoned recognition completing later changes neither the text nor
\* the confidence sum nor the counters.
RecognitionTimeoutAbandoned ==
    []OcrTimeoutHandled /\ [][LateSettlementIgnored]_vars

\* the recognition of a timed-out page has completed late, and a later page
\* has succeeded
RecognitionTimeoutWitness ==
    \E op \in settled :
        /\ op.stage = "recognize"
        /\ pageState[op.page] = "failed"
        /\ \E q \in Pages : q > op.page /\ pageState[q] = "succeeded"

\* C7: pages are processed one at a time in ascending order: page p+1 is not
\* started before page p has succeeded or failed, and the accumulators are
\* written for page p before page p+1.
SequentialPages ==
    /\ \A p \in Pages :
          (p > 1 /\ pageState[p] # "pending") => pageState[p - 1] \in Terminal
    /\ \A p \in Pages :
          pageState[p] \in {"rasterizing", "recognizing"} => (p = pageNum /\ ~Ended)
    /\ \A i \in 1..(Len(written) - 1) : written[i] < written[i + 1]
    /\ \A i \in 1..Len(written) : pageState[written[i]] \in Terminal

\* page 2 is being recognized while the abandoned recognition of page 1,
\* which timed out, is still running
SequentialPagesWitness ==
    /\ Pages # {} /\ 2 \in Pages
    /\ pageState[2] = "recognizing"
    /\ [page |-> 1, stage |-> "recognize"] \in inflight
    /\ written = << 1 >>

DocumentErrors ==
    {InvalidTypeMessage(file.type), TooLargeMessage, ParseErrorMessage,
     NoPagesMessage, TooManyPagesMessage}

Rejected == result.status = "threw" /\ result.error \in DocumentErrors

ShouldReject ==
    \/ file.type # "application/pdf"
    \/ file.size > 50 * 1024 * 1024
    \/ ~file.parses
    \/ file.doc.numPages = 0
    \/ file.doc.numPages > 20

\* C8: the input is rejected with a document-level failure, before any page
\* is attempted, exactly when the type is not application/pdf, the size
\* exceeds 50MB, the document does not parse, or the page count is 0 or
\* above 20; the parse failure has an error of its own.
ValidationRejects ==
    /\ Ended => (Rejected <=> ShouldReject)
    /\ ShouldReject =>
          /\ pageState = << >> /\ pageNum = 0 /\ allText = ""
          /\ \A i \in 1..Len(events) : events[i].kind \in {"loading", "fallback"}
    /\ (~ShouldReject /\ Ended) => \A p \in 1..file.doc.numPages : pageState[p] \in Terminal
    /\ (result.status = "threw" /\ result.error = ParseErrorMessage)
          <=> (Ended /\ file.type = "application/pdf"
                 /\ file.size <= 50 * 1024 * 1024 /\ ~file.parses)

\* a document of exactly 20 pages and exactly 50MB has been processed
ValidationWitness ==
    /\ Ended /\ HasReturned
    /\ file.doc.numPages = 20
    /\ file.size = 50 * 1024 * 1024
    /\ processedPages = 20

\* C9: the outcome of a call (the returned text and confidence, or the
\* failure) is the same without callback and with a callback, whatever the
\* callback does (stated as claimed; a callback that fails changes it).
CallbackIndependent ==
    (Ended /\ previous # Pending) => result = previous

(***************************************************************************)
(* The field list of the page.                                             *)
(***************************************************************************)
ContractFieldNames ==
    {"Property Address", "Legal Description", "Buyer Name", "Seller Name",
     "Purchase Price", "Earnest Money", "Execution Date", "Closing Date"}

\* a pattern of the field matches somewhere in the text
PatternMatched(name, text) ==
    CASE name = "Property Address" ->
            LabeledAddressMatch(text) # "" \/ BareAddressMatch(text) # ""
      [] name = "Purchase Price" ->
            LabeledPriceMatch(text) # "" \/ BarePriceMatch(text) # ""
      [] name = "Buyer Name" -> BuyerMatch(text) # ""
      [] name = "Seller Name" -> SellerMatch(text) # ""
      [] name = "Closing Date" -> ClosingDateMatch(text) # ""
      [] name = "Execution Date" -> ExecutionDateMatch(text) # ""
      [] name = "Earnest Money" -> EarnestMatch(text) # ""
      [] name = "Legal Description" -> LegalMatch(text) # ""
      [] OTHER -> FALSE

\* a run has completed on the page, or its list was re-extracted
ListProduced == mounted /\ (currentStep = "review" \/ extractedData # << >>)

\* C10: once a run has completed, and after every re-extraction, the field
\* list has exactly eight entries, each of the eight required names exactly
\* once, and an entry whose field no pattern matched in the text it was
\* extracted from has an empty value and confidence 0 (an entry with a
\* value or a confidence is of a field that a pattern matched, or that was
\* updated by hand after the extraction).
FieldListComplete ==
    ListProduced =>
        /\ Len(extractedData) = 8
        /\ \A name \in ContractFieldNames :
              Cardinality({ i \in 1..Len(extractedData) : extractedData[i].field = name }) = 1
        /\ \A i \in 1..Len(extractedData) :
              (/\ extractedData[i].field \notin manual
               /\ extractedData[i].value # "" \/ extractedData[i].confidence # 0) =>
                  PatternMatched(extractedData[i].field, extractedFrom)

\* the list was re-extracted from an edited text in which some patterns
\* matched and others did not
FieldListWitness ==
    /\ mounted /\ currentStep = "review"
    /\ extractedFrom \in EditedTexts
    /\ extractedFrom # result.text
    /\ \E i, j \in 1..Len(extractedData) :
          /\ PatternMatched(extractedData[i].field, extractedFrom)
          /\ ~PatternMatched(extractedData[j].field, extractedFrom)

\* the names of a field list, in order
FieldNames(fields) == [i \in 1..Len(fields) |-> fields[i].field]

\* C11: the order of the names in the field list is fixed: the list on the
\* page carries, entry by entry, the names of the list that extraction
\* yields on any other text.
FieldOrderFixed ==
    ListProduced =>
        \A text \in ContractTexts \cup EditedTexts :
            FieldNames(extractedData) = FieldNames(FinalFields(text))


(***************************************************************************)
(* The exported CSV.                                                       *)
(***************************************************************************)
\* the field whose value belongs under each header column between the file
\* id and the notes
ColumnFields ==
    << "Property Address", "Legal Description", "Buyer Name", "Seller Name",
       "Purchase Price", "Earnest Money", "Execution Date", "Closing Date" >>

\* the value of the field called name in a list that holds it
ValueOf(fields, name) ==
    fields[CHOOSE i \in 1..Len(fields) : fields[i].field = name].value

\* the data row in header order: the file id, the value of the field of each
\* column, the notes
AlignedValues ==
    << FileId >> \o [k \in 1..Len(ColumnFields) |-> ValueOf(extractedData, ColumnFields[k])]
                 \o << documentNotes >>

\* C12: the CSV written by exportToCSV is the header row and a data row of
\* ten values in header order: the file id, under each column the value of
\* the field of that name, and the notes (stated as claimed; the values are
\* written in list order, which is not the header order).
CsvAligned ==
    (mounted /\ download # NoDownload) =>
        download = Join(<< CsvRow(CsvHeaders), CsvRow(AlignedValues) >>, "\n")


(***************************************************************************)
(* Manual updates of a field.                                              *)
(***************************************************************************)
\* names that no entry of a field list carries
UnknownNames == {"Notes", "Buyer", ""}

\* handleFieldUpdate with a name that no entry carries leaves the list as
\* it is
UnknownNameIgnored ==
    ListProduced =>
        \A name \in UnknownNames, value \in EditedValues :
            UpdatedFields(extractedData, name, value) = extractedData

\* a step of handleFieldUpdate, of which update holds the arguments: the
\* entry called name gets the value and confidence 100, every other entry,
\* the length and the order of the list and the rest of the page stay
FieldUpdateStep ==
    update'.n > update.n =>
        /\ Len(extractedData') = Len(extractedData)
        /\ \A i \in 1..Len(extractedData) :
              /\ extractedData'[i].field = extractedData[i].field
              /\ IF extractedData[i].field = update'.field
                 THEN /\ extractedData'[i].value = update'.value
                      /\ extractedData'[i].confidence = 100
                 ELSE extractedData'[i] = extractedData[i]
        /\ UNCHANGED << extractedText, ocrConfidence, isProcessing, currentStep,
                        processingProgress, processingError, documentNotes, result >>

\* C13: handleFieldUpdate(name, v) sets the value of the field called name
\* to v and its confidence to 100 whatever they were, keeps every other
\* field, the length and the order of the list, and does nothing for a name
\* that is not in the list.
FieldUpdateOnly == []UnknownNameIgnored /\ [][FieldUpdateStep]_vars

\* a field that extraction had found with its own confidence was updated by
\* hand, next to another found field
FieldUpdateWitness ==
    /\ mounted /\ update.n > 0
    /\ update.field \in manual
    /\ PatternMatched(update.field, extractedFrom)
    /\ \E i, j \in 1..Len(extractedData) :
          /\ extractedData[i].field = update.field
          /\ extractedData[i].value = update.value
          /\ extractedData[i].confidence = 100
          /\ extractedData[j].field # update.field
          /\ extractedData[j].value # ""
          /\ extractedData[j].confidence \notin {0, 100}


(***************************************************************************)
(* The alternatives of a rule group.                                       *)
(***************************************************************************)
Extracted == pc = "extracted"

\* C14: the alternatives of the address and of the price are tried in
\* order and the first that matches determines the field: whenever the
\* labeled alternative matches the text, the value is the one of its match,
\* also when the bare alternative matches earlier in the text; the bare
\* alternative supplies the value only when the labeled one does not match.
FirstAlternativeWins ==
    Extracted =>
        /\ LabeledAddressMatch(extractedText) # "" =>
              /\ HasField(extractedData, "Property Address")
              /\ ValueOf(extractedData, "Property Address") =
                    Trim(RemoveLeadingLabel(LabeledAddressMatch(extractedText),
                                            AddressKeywords))
        /\ LabeledPriceMatch(extractedText) # "" =>
              /\ HasField(extractedData, "Purchase Price")
              /\ ValueOf(extractedData, "Purchase Price") =
                    "$" \o InnerAmount(LabeledPriceMatch(extractedText))
        /\ (LabeledPriceMatch(extractedText) = "" /\ BarePriceMatch(extractedText) # "") =>
              /\ HasField(extractedData, "Purchase Price")
              /\ ValueOf(extractedData, "Purchase Price") =
                    "$" \o InnerAmount(BarePriceMatch(extractedText))

\* a text in which a street line and a dollar amount stand before the
\* labeled address and the labeled price
FirstAlternativeWitness ==
    /\ Extracted
    /\ extractedText = "14 Oak Ave\nDeposit: $500\nProperty: 12 Main St\nPurchase Price: $9,000"
    /\ BareAddressMatch(extractedText) = "14 Oak Ave"
    /\ BarePriceMatch(extractedText) = "$500"
    /\ ValueOf(extractedData, "Property Address") = "12 Main St"
    /\ ValueOf(extractedData, "Purchase Price") = "$9,000"


\* the confidence of the field called name in a list that holds it
ConfidenceOf(fields, name) ==
    fields[CHOOSE i \in 1..Len(fields) : fields[i].field = name].confidence

\* a text that only the bare price alternative matches
BarePriceText == "$5"

\* C15: a Purchase Price found through the labeled alternative has a
\* strictly higher confidence than a Purchase Price found only through the
\* bare alternative (stated as claimed; both alternatives push 90).
LabeledPriceOutranksBare ==
    (Extracted /\ LabeledPriceMatch(extractedText) # "") =>
        ConfidenceOf(extractedData, "Purchase Price") >
            ConfidenceOf(extractFieldsFromText(BarePriceText), "Purchase Price")


\* C16: a text whose first labeled price occurrence is 'Purchase Price: $A',
\* A being an amount of digits and commas with an optional two-digit
\* decimal part, yields a Purchase Price field with value '$' followed by A
\* and confidence 90.
PurchasePriceRoundTrip ==
    Extracted =>
        \A p \in ExtractPrefixes, a \in Amounts, s \in ExtractSuffixes :
            extractedText = p \o PurchasePriceLabel \o a \o s =>
                /\ HasField(extractedData, "Purchase Price")
                /\ ValueOf(extractedData, "Purchase Price") = "$" \o a
                /\ ConfidenceOf(extractedData, "Purchase Price") = 90

\* the amount with thousands separators and cents, after a price label
\* that no amount follows
PurchasePriceWitness ==
    /\ Extracted
    /\ extractedText = "Sale price: TBD\nPurchase Price: $1,250,000.00\n"
    /\ ValueOf(extractedData, "Purchase Price") = "$1,250,000.00"
    /\ ConfidenceOf(extractedData, "Purchase Price") = 90


(***************************************************************************)
(* Re-extraction from the corrected text.                                  *)
(***************************************************************************)
\* a step of reprocessFields that replaces a list updated by hand or
\* extracted from another text: the new list is what extraction yields on
\* the text of the box, no entry keeps a confidence of 100 or a value typed
\* into the form, and a field that no pattern matches in the text is empty
\* with confidence 0
ReextractionStep ==
    (/\ ~isProcessing /\ ~isProcessing'
     /\ manual' = {}
     /\ manual # {} \/ extractedFrom' # extractedFrom) =>
        /\ extractedData' = FinalFields(extractedText)
        /\ \A i \in 1..Len(extractedData') :
              /\ extractedData'[i].confidence # 100
              /\ extractedData'[i].value \notin EditedValues
              /\ ~PatternMatched(extractedData'[i].field, extractedText) =>
                    /\ extractedData'[i].value = ""
                    /\ extractedData'[i].confidence = 0

\* C17: reprocessFields replaces the field list and merges nothing: the new
\* list is a function of the current text only, values and confidence 100
\* set by earlier updates by hand do not survive, and the fields not found
\* in the text are empty with confidence 0.
ReextractionReplaces == [][ReextractionStep]_vars

\* a field was updated by hand after the run and the list was re-extracted
\* afterwards from an edited text
ReextractionWitness ==
    /\ mounted /\ currentStep = "review"
    /\ update.n > 0
    /\ manual = {}
    /\ extractedFrom \in EditedTexts
    /\ extractedData = FinalFields(extractedFrom)
    /\ \E i \in 1..Len(extractedData) :
          /\ extractedData[i].field = update.field
          /\ extractedData[i].value # update.value


(***************************************************************************)
(* The recognition call.                                                   *)
(***************************************************************************)
RecognitionCalled == recognizeArgs # NoCall

\* C18: every recognition call of a run receives the configuration of the
\* run as engine options: the language, and the page segmentation mode, the
\* engine mode, the whitelist, the blacklist and the interword-spaces flag
\* as the parameters built from the configuration (stated as claimed; the
\* call receives the language and the logger only).
EngineOptionsPassed ==
    RecognitionCalled =>
        /\ recognizeArgs.language = tesseractConfig.language
        /\ recognizeArgs.parameters = WorkerOptions(tesseractConfig)


\* every pixel of the raster has the background colour
EntirelyBlank(raster) == \A i \in 1..Len(raster) : raster[i] = White

\* C19: a page whose raster is entirely blank after rendering is a render
\* failure and is never passed to the recognition engine (stated as
\* claimed; the rendered canvas is passed on without a look at its pixels).
BlankRasterNotRecognized ==
    RecognitionCalled => ~EntirelyBlank(recognizeArgs.image)


(***************************************************************************)
(* Blank recognized text.                                                  *)
(***************************************************************************)
\* the engine returns an empty or whitespace-only text for page p
BlankResult(p) == Outcome(p).kind = "recognized" /\ IsBlankText(Outcome(p).text)

\* the step in which the recognition of a page returns a blank text: the
\* confidence sum and the count of successful pages stay, the page counts
\* as failed and its fragment is the '(No text found)' marker
BlankResultStep ==
    (/\ pc = "recognize" /\ BlankResult(pageNum)
     /\ pc' # pc \/ pageNum' # pageNum) =>
        /\ totalConfidence' = totalConfidence
        /\ processedPages' = processedPages
        /\ failedPages' = failedPages + 1
        /\ allText' = allText \o NoTextFragment(pageNum)
        /\ pageState'[pageNum] = "failed"

\* C20: a page whose recognized text is empty or whitespace-only has no
\* usable text whatever confidence the engine reports: its confidence is
\* not added to the confidence sum, it is not counted among the successful
\* pages, and its fragment is the '(No text found)' marker.
BlankTextNotUsable == [][BlankResultStep]_vars

\* the engine returned a whitespace-only text with confidence 95 for a page
\* that follows a page with usable text
BlankTextWitness ==
    \E p \in DOMAIN pageState :
        /\ p > 1
        /\ BlankResult(p)
        /\ Outcome(p).text # ""
        /\ Outcome(p).confidence = 95
        /\ pageState[p] = "failed"
        /\ pageState[p - 1] = "succeeded"
        /\ totalConfidence = 95


(***************************************************************************)
(* The life of a page.                                                     *)
(***************************************************************************)
\* the moves of a page
PageMoves ==
    { << "pending", "rasterizing" >>, << "rasterizing", "recognizing" >>,
      << "rasterizing", "failed" >>, << "recognizing", "succeeded" >>,
      << "recognizing", "failed" >> }

\* the kinds of page on which the render does not complete
NoRasterKinds == {"loadError", "loadTimeout", "noContext", "renderError", "renderTimeout"}

\* the engine was called for a page only if its render completed, and that
\* page is recognizing or has ended
RecognitionAfterRender ==
    RecognitionCalled =>
        /\ recognizeArgs.page \in DOMAIN pageState
        /\ Outcome(recognizeArgs.page).kind \notin NoRasterKinds
        /\ pageState[recognizeArgs.page] \in {"recognizing", "succeeded", "failed"}

\* in a step every page stays where it is or makes one of the moves, and
\* the engine is called in the move from rasterizing to recognizing only
PageMoveStep ==
    /\ \A p \in DOMAIN pageState :
          \/ pageState'[p] = pageState[p]
          \/ << pageState[p], pageState'[p] >> \in PageMoves
    /\ recognizeArgs' # recognizeArgs =>
          /\ pc = "render"
          /\ pageState[pageNum] = "rasterizing"
          /\ pageState'[pageNum] = "recognizing"
          /\ recognizeArgs'.page = pageNum

\* C21: a page moves only pending -> rasterizing -> recognizing ->
\* succeeded, or to failed from rasterizing or recognizing; the engine is
\* called for a page only after its render completed, never after a render
\* error or timeout; succeeded and failed are terminal.
PageLifecycle == []RecognitionAfterRender /\ [][PageMoveStep]_vars

\* a run in which a page succeeded, a page failed in its render and a page
\* failed in its recognition
PageLifecycleWitness ==
    /\ Ended
    /\ \E p, q, f \in DOMAIN pageState :
          /\ pageState[p] = "succeeded"
          /\ Outcome(q).kind = "renderTimeout" /\ pageState[q] = "failed"
          /\ Outcome(f).kind = "ocrError" /\ pageState[f] = "failed"


(***************************************************************************)
(* Termination.                                                            *)
(***************************************************************************)
\* the document was opened and its pages are being processed
InPageLoop == pc \in {"getPage", "render", "recognize"}

\* the run is over, every page has ended and the loop made one attempt per
\* page
AllPagesEnded ==
    /\ Ended
    /\ \A p \in DOMAIN pageState : pageState[p] \in Terminal
    /\ pageNum = totalPages + 1

\* C22: once the document is opened the run terminates, the deadline
\* timers firing: every page reaches succeeded or failed, also when the
\* page load, the render or the engine never answers, and the call returns
\* or fails after one attempt per page.
RunTerminates == InPageLoop ~> AllPagesEnded

\* a run has ended on a document whose page load, render and recognition
\* each ran into the deadline
RunTerminatesWitness ==
    /\ AllPagesEnded
    /\ \E p, q, f \in DOMAIN pageState :
          /\ Outcome(p).kind = "loadTimeout"
          /\ Outcome(q).kind = "renderTimeout"
          /\ Outcome(f).kind = "ocrTimeout"


(***************************************************************************)
(* The canvas of a page.                                                   *)
(***************************************************************************)
\* C23: the canvas created for a page is removed by the time the loop
\* moves on to the next page or ends, on every path: a canvas that is held
\* is the canvas of the page being processed (stated as claimed; the
\* canvas is removed at the end of the try block only).
CanvasReleased ==
    \A p \in canvases : ~Ended /\ p = pageNum


(***************************************************************************)
(* The progress events seen by the caller.                                 *)
(***************************************************************************)
\* the events that carry a page number
PageEvents == { i \in 1..Len(events) : events[i].kind \notin {"loading", "fallback"} }

\* C24: in the progress events delivered during a run the page number
\* never decreases, also when the recognition of an earlier page was
\* abandoned at its deadline and keeps running while later pages are
\* processed (stated as claimed; the logger of the abandoned recognition
\* still reports with the number of its page).
ProgressMonotonic ==
    \A i, j \in PageEvents : i < j => events[i].pageNumber <= events[j].pageNumber


\* the call of processDocument is over and none is started
RunOverStep == ~isProcessing /\ ~isProcessing'

\* C25: after processPDFWithOCR has returned or failed, nothing of that run
\* changes what the page shows: the step stays 'review' or 'fallback' and
\* the progress record stays as it is until a new run is started (stated
\* as claimed; the logger of an abandoned recognition still calls the
\* progress handler of the page).
AbandonedEventsIgnored ==
    [][RunOverStep => UNCHANGED << currentStep, processingProgress >>]_vars


\* C26: every page that has failed at a stage (page load, drawing context,
\* render, recognition; error or deadline) has an error event with its
\* number among the events, and every 'ocr' event of a page comes after
\* the 'converting' event of that page (stated as claimed; a page without
\* a drawing context is counted as failed without any event).
FailedPageReported ==
    callback.present =>
        /\ \A p \in DOMAIN pageState :
              (pageState[p] = "failed" /\ Outcome(p).kind \in FailureKinds) =>
                  \E i \in 1..Len(events) :
                      events[i].kind = "error" /\ events[i].pageNumber = p
        /\ \A j \in 1..Len(events) :
              events[j].kind = "ocr" =>
                  \E i \in 1..(j - 1) :
                      /\ events[i].kind = "converting"
                      /\ events[i].pageNumber = events[j].pageNumber


\* a call of processDocument is in flight before and after the step
RunInFlightStep == isProcessing /\ isProcessing'

\* a call of Tesseract.recognize is made by the step
RecognizeCallStep == recognizeArgs' # recognizeArgs

\* processDocument stores the result of a call that returned
ResultStoredStep == isProcessing /\ ~isProcessing' /\ processingError' = NoError

\* C27: the configuration of a run is the one the page held when the run was
\* started and does not change while the run is in flight; every call of the
\* engine gets the language of that configuration; and a run that returns
\* has taken every page 1..N to its end and replaces the stored text, the
\* confidence and the field list by what it produced.
ConfigurationPerRun ==
    /\ [][RunInFlightStep => tesseractConfig' = tesseractConfig]_vars
    /\ [][(~isProcessing /\ isProcessing') =>
              tesseractConfig' = tesseractConfigState]_vars
    /\ [][RecognizeCallStep =>
              /\ isProcessing
              /\ recognizeArgs'.language = tesseractConfig.language]_vars
    /\ [][ResultStoredStep =>
              /\ \A p \in 1..totalPages : pageState[p] \in {"succeeded", "failed"}
              /\ extractedText' = result.text
              /\ ocrConfidence' = result.confidence
              /\ extractedData' = FinalFields(result.text)
              /\ manual' = {}]_vars

\* a second run, started with a configuration in another language after the
\* text was edited, has returned and its result is what the page shows
ConfigurationPerRunWitness ==
    /\ ReviewShown
    /\ tesseractConfig.language = "spa"
    /\ recognizeArgs # NoCall
    /\ recognizeArgs.language = "spa"
    /\ totalPages = 2
    /\ extractedText = result.text
    /\ extractedText # ""


\* the pages counted as processed and as failed are the pages that ended so
EndedAs(state) == { p \in Pages : pageState[p] = state }

\* C28: after every iteration processedPages + failedPages is the number of
\* pages attempted, every page that ended is counted in exactly one of the
\* two counters, and when the loop is over the sum is totalPages.
PageAccounting ==
    /\ processedPages = Cardinality(EndedAs("succeeded"))
    /\ failedPages = Cardinality(EndedAs("failed"))
    /\ InPageLoop => processedPages + failedPages = pageNum - 1
    /\ (Ended /\ ValidFile) =>
          /\ processedPages + failedPages = totalPages
          /\ totalPages = file.doc.numPages

\* a run over three pages is over with pages in both counters
PageAccountingWitness ==
    /\ Ended /\ ValidFile
    /\ totalPages = 3
    /\ processedPages >= 1
    /\ failedPages >= 1


\* the 'fallback' events of the run
FallbackEvents == { i \in 1..Len(events) : events[i].kind = "fallback" }

\* C29: a run that fails (validation, parse failure, no usable page) has
\* emitted exactly one 'fallback' event, as its last event, carrying the
\* message of the error the call then throws; a run that returns, and a run
\* that is not over, has emitted none.
FallbackOnFailure ==
    callback.present =>
        IF Ended /\ result.status = "threw"
        THEN /\ FallbackEvents = {Len(events)}
             /\ events[Len(events)].error = result.error
             /\ result.error \in DocumentErrors \cup {NoUsableTextMessage}
        ELSE FallbackEvents = {}

\* a run over a valid file has failed for want of a usable page, after the
\* events of its pages
FallbackOnFailureWitness ==
    /\ callback.present
    /\ Ended /\ result.status = "threw"
    /\ ValidFile
    /\ result.error = NoUsableTextMessage
    /\ Len(events) > 3


\* a run of the pipeline is started by the step
RunStartStep == pc' = "start" /\ pc # "start"

\* C30: the page has at most one run of the pipeline in flight: a run is
\* started (after the one of the mount) only from the review view, with no
\* run in flight; while a run is in flight the stored text, confidence and
\* field list do not change; and what is stored when processDocument ends
\* is the result of the run started last.
SingleRunInFlight ==
    /\ [](mounted => (isProcessing \/ Ended))
    /\ [][RunStartStep => (ReviewShown /\ Ended)]_vars
    /\ [][RunInFlightStep =>
              UNCHANGED << extractedText, ocrConfidence, extractedData >>]_vars
    /\ [][(isProcessing /\ ~isProcessing') =>
              /\ Ended
              /\ processingError' = NoError =>
                    /\ HasReturned
                    /\ extractedText' = result.text
                    /\ ocrConfidence' = result.confidence
                    /\ extractedFrom' = result.text]_vars

\* a second run is in the page loop while the page holds the text of the
\* first
SingleRunInFlightWitness ==
    /\ mounted /\ isProcessing
    /\ InPageLoop
    /\ pageNum = 2
    /\ extractedText # ""

====
